---- MODULE Spec2Model ----
(***************************************************************************)
(* Model of mcp_server_oci_resources/server.py: the tool handler           *)
(* handle_call_tool, OCIResourceQuerier.execute_query and the AST scanner  *)
(* CodeExecutor.  A code snippet is a sequence of Python statements taken  *)
(* from a small vocabulary; exec() is modelled statement by statement.     *)
(***************************************************************************)
EXTENDS Integers, Sequences, FiniteSets, TLC

\* Longest code snippet, in top-level statements.
MaxLen == 2

(***************************************************************************)
(* State.                                                                  *)
(*   builtins_is_module  whether __builtins__ in server.py's globals is    *)
(*                 the builtins module (the file run as __main__) or its   *)
(*                 dict (the file imported): the interpreter decides       *)
(*   config        the dict self.config refers to, shared by every call    *)
(*   pc            where the one running tool call stands                  *)
(*   code_snippet, tree, executor, local_ns, ip, payload, exit             *)
(*                 execute_query's frame: its argument, its locals, the    *)
(*                 number of top-level statements exec has begun, the      *)
(*                 string it returns and the line of the return reached    *)
(*                 ("raise" when an exception leaves it)                   *)
(*   response      what handle_call_tool hands to the transport            *)
(*   left_over     history: the running call follows one whose namespace   *)
(*                 ended holding bindings its snippet made                 *)
(* After execute_query returns nothing refers to its namespace any more;   *)
(* local_ns keeps the value until the next frame is entered.               *)
(***************************************************************************)
VARIABLES builtins_is_module, config, pc, code_snippet, tree, executor, local_ns, ip,
          payload, exit, response, left_over

vars == <<builtins_is_module, config, pc, code_snippet, tree, executor, local_ns, ip,
          payload, exit, response, left_over>>

(***************************************************************************)
(* Python values: t is the type, k the key of a one-item dict, v the       *)
(* text, names the set a formatted message was joined from.                *)
(***************************************************************************)
V(t, k, v, names) == [t |-> t, k |-> k, v |-> v, names |-> names]

PyNone == V("NoneType", "", "None", {})

PyInt(v) == V("int", "", v, {})

PyStr(v) == V("str", "", v, {})

PyDict(k, item) == V("dict", k, item.v, item.names)

ModuleObject(name) == V("module", "", name, {})

Function(name) == V("builtin_function_or_method", "", name, {})

\* An OCI SDK model object: it has a to_dict method.
OciModel == V("oci_model", "id", "ocid1", {})

\* A reference to the one dict self.config; the dict itself is the variable config.
ConfigRef == V("ref", "", "self.config", {})

hasattr_to_dict(obj) == obj.t = "oci_model"

to_dict(obj) == PyDict(obj.k, PyStr(obj.v))

\* node.module of `from . import x`.
NoModuleName == "<None>"

allowed_modules ==
    {"oci", "operator", "json", "datetime", "pytz", "dateutil", "re", "time", "sys", "base64"}

BuiltinNames ==
    {"dict", "list", "tuple", "set", "str", "int", "float", "bool",
     "len", "max", "min", "sorted", "filter", "map", "sum", "any", "all",
     "__import__", "hasattr", "getattr", "isinstance", "print"}

TOOL_NAME == "read_create_update_oci_resources"

\* The value oci.config.from_file returns at construction.
LoadedConfig == [region |-> "us-ashburn-1"]

(***************************************************************************)
(* The syntax tree: ast nodes as records, `node` the class name.           *)
(***************************************************************************)
Name(id) == [node |-> "Name", id |-> id]

Subscript(value, key) == [node |-> "Subscript", value |-> value, key |-> key]

Constant(value) == [node |-> "Constant", value |-> value]

Call(func, arg) == [node |-> "Call", func |-> func, arg |-> arg]

Import(names) == [node |-> "Import", names |-> names]

ImportFrom(module, names) == [node |-> "ImportFrom", module |-> module, names |-> names]

Assign(targets, value) == [node |-> "Assign", targets |-> targets, value |-> value]

AnnAssign(target, value) == [node |-> "AnnAssign", target |-> target, value |-> value]

If(test, body) == [node |-> "If", test |-> test, body |-> body]

Expr(value) == [node |-> "Expr", value |-> value]

Module(body) == [node |-> "Module", body |-> body]

\* The statements a snippet is written with.
Statements ==
    { Import(<<"sys">>),                                             \* import sys
      Import(<<"os">>),                                              \* import os
      ImportFrom("subprocess", <<"run">>),                           \* from subprocess import run
      ImportFrom(NoModuleName, <<"x">>),                             \* from . import x
      If(TRUE, <<Import(<<"os">>)>>),                                \* if True: import os
      Assign(<<Name("x")>>, Constant(PyInt("5"))),                   \* x = 5
      Assign(<<Subscript("config", "region")>>, Constant(PyStr("evil"))),  \* config['region'] = 'evil'
      Assign(<<Name("result")>>, Subscript("config", "region")),     \* result = config['region']
      Expr(Call("sys.exit", "")),                                    \* sys.exit()
      Assign(<<Name("result")>>, Name("x")),                         \* result = x
      Assign(<<Subscript("__builtins__", "len")>>, Constant(PyInt("0"))),  \* __builtins__['len'] = 0
      Assign(<<Name("result")>>, Constant(PyInt("2"))),                \* result = 1 + 1
      Assign(<<Name("result")>>, Constant(PyDict("error", PyStr("boom")))),  \* result = {"error": "boom"}
      AnnAssign(Name("result"), Constant(PyInt("1"))),                 \* result: int = 1
      Assign(<<Name("result")>>, Constant(PyNone)),                    \* result = None
      If(FALSE, <<Assign(<<Name("result")>>, Constant(PyInt("1")))>>), \* if False: result = 1
      Assign(<<Name("result")>>, Call("__import__", "os")),          \* result = __import__('os')
      Assign(<<Name("result")>>, Call("oci.fail", "")),              \* result = <SDK call that raises>
      Assign(<<Name("result")>>, Call("oci.get", "")) }              \* result = <SDK call returning a model>

\* Text that does not parse, e.g. an unmatched parenthesis.
Malformed == <<[node |-> "SyntaxError"]>>

Snippets ==
    {Malformed} \cup UNION {[1..n -> Statements] : n \in 1..MaxLen}

(***************************************************************************)
(* CodeExecutor: the scan of the tree.  NodeTransformer.visit calls the    *)
(* visit_<class> method when the class defines one and generic_visit       *)
(* otherwise; generic_visit visits the child statements.                   *)
(***************************************************************************)
CodeExecutor == [has_result |-> FALSE, imported_modules |-> {}]

RECURSIVE visit_targets(_, _, _)
visit_targets(self, targets, i) ==
    IF i > Len(targets) THEN self
    ELSE visit_targets(
             IF targets[i].node = "Name" /\ targets[i].id = "result"
             THEN [self EXCEPT !.has_result = TRUE]
             ELSE self,
             targets, i + 1)

visit_Assign(self, node) == visit_targets(self, node.targets, 1)

visit_Import(self, node) ==
    [self EXCEPT !.imported_modules = @ \cup {node.names[i] : i \in DOMAIN node.names}]

visit_ImportFrom(self, node) ==
    [self EXCEPT !.imported_modules = @ \cup {node.module}]

ChildStatements(node) == IF node.node \in {"Module", "If"} THEN node.body ELSE <<>>

RECURSIVE visit(_, _)
RECURSIVE visit_each(_, _, _)
generic_visit(self, node) == visit_each(self, ChildStatements(node), 1)

visit(self, node) ==
    CASE node.node = "Assign" -> visit_Assign(self, node)
      [] node.node = "Import" -> visit_Import(self, node)
      [] node.node = "ImportFrom" -> visit_ImportFrom(self, node)
      [] OTHER -> generic_visit(self, node)

visit_each(self, body, i) ==
    IF i > Len(body) THEN self ELSE visit_each(visit(self, body[i]), body, i + 1)

(***************************************************************************)
(* ast.parse, the import check and the namespace.                          *)
(***************************************************************************)
ParseFails(source) == source = Malformed

ast_parse(source) == Module(source)

unauthorized_imports(scanner) == scanner.imported_modules \ allowed_modules

\* ', '.join(names) raises TypeError on an item that is not a str.
JoinRaises(names) == NoModuleName \in names

UnauthorizedMessage(names) ==
    V("str", "", "Unauthorized imports: {}. Only {} are allowed.", names)

MissingResultMessage == PyStr("Code must set a 'result' variable with the query output")

NoneResultMessage == PyStr("Result cannot be None")

JoinTypeError == PyStr("sequence item 0: expected str instance, NoneType found")

BuiltinsAttributeError == PyStr("'dict' object has no attribute 'dict'")

\* getattr(__builtins__, name) for each listed name: the interpreter's own objects.
RestrictedBuiltins == [name \in BuiltinNames |-> Function(name)]

\* BuildNamespace, were the namespace kept from one call to the next.
BuildNamespaceKept(self_config) ==
    IF DOMAIN local_ns.names # {}
    THEN local_ns
    ELSE [names |-> [n \in {"oci", "config", "result", "itemgetter"} |->
                        CASE n = "oci" -> ModuleObject("oci")
                          [] n = "config" -> self_config
                          [] n = "result" -> PyNone
                          [] n = "itemgetter" -> Function("itemgetter")],
          builtins |-> RestrictedBuiltins]

\* BuildNamespace, were result seeded with a marker of its own instead of None.
BuildNamespaceUnsetMarker(self_config) ==
    [names |-> [n \in {"oci", "config", "result", "itemgetter"} |->
                   CASE n = "oci" -> ModuleObject("oci")
                     [] n = "config" -> self_config
                     [] n = "result" -> V("object", "", "UNSET", {})
                     [] n = "itemgetter" -> Function("itemgetter")],
     builtins |-> RestrictedBuiltins]

\* The dict literal bound to local_ns.
BuildNamespace(self_config) ==
    [names |-> [n \in {"oci", "config", "result", "itemgetter"} |->
                   CASE n = "oci" -> ModuleObject("oci")
                     [] n = "config" -> self_config
                     [] n = "result" -> PyNone
                     [] n = "itemgetter" -> Function("itemgetter")],
     builtins |-> RestrictedBuiltins]

\* No namespace: none built yet, or the frame that held it never built one.
NoNamespace == [names |-> [n \in {} |-> PyNone], builtins |-> [n \in {} |-> PyNone]]

(***************************************************************************)
(* json.dumps(obj, default=str): the text returned, as its JSON shape.     *)
(***************************************************************************)
Json(shape, key, text, names) == [shape |-> shape, key |-> key, text |-> text, names |-> names]

str(obj) ==
    CASE obj.t = "str" -> obj.v
      [] obj.t = "module" -> "<module '" \o obj.v \o "'>"
      [] OTHER -> "<" \o obj.t \o " " \o obj.v \o ">"

json_dumps(obj) ==
    CASE obj.t = "int" -> Json("number", "", obj.v, {})
      [] obj.t = "str" -> Json("string", "", obj.v, obj.names)
      [] obj.t = "dict" -> Json("object", obj.k, obj.v, obj.names)
      [] obj.t = "NoneType" -> Json("null", "", "null", {})
      [] OTHER -> Json("string", "", str(obj), {})

ErrorPayload(message) == json_dumps(PyDict("error", message))

NoPayload == Json("", "", "", {})

(***************************************************************************)
(* exec(compiled_code, local_ns): the interpreter on the statements above. *)
(* A frame is the namespace (ns the names, bi the __builtins__ table),     *)
(* cfg the dict self.config refers to, and exc/msg the exception raised    *)
(* ("" when none; SystemExit is a BaseException, not an Exception).        *)
(***************************************************************************)
Frame(ns, bi, cfg) == [ns |-> ns, bi |-> bi, cfg |-> cfg, exc |-> "", msg |-> PyStr("")]

Raise(st, exc, msg) == [st EXCEPT !.exc = exc, !.msg = PyStr(msg)]

Bind(f, key, val) == [n \in DOMAIN f \cup {key} |-> IF n = key THEN val ELSE f[n]]

Value(val) == [val |-> val, exc |-> "", msg |-> PyStr("")]

Raised(exc, msg) == [val |-> PyNone, exc |-> exc, msg |-> PyStr(msg)]

\* A name is looked up in the globals, then in the __builtins__ table.
Lookup(st, id) ==
    IF id \in DOMAIN st.ns THEN Value(st.ns[id])
    ELSE IF id \in DOMAIN st.bi THEN Value(st.bi[id])
    ELSE Raised("Exception", "name '" \o id \o "' is not defined")

CallFunction(st, func, arg) ==
    CASE func = "__import__" ->
             IF Lookup(st, "__import__").exc # "" THEN Lookup(st, "__import__")
             ELSE IF Lookup(st, "__import__").val = Function("__import__")
                  THEN Value(ModuleObject(arg))
                  ELSE Raised("Exception", "object is not callable")
      [] func = "sys.exit" ->
             IF Lookup(st, "sys").exc # "" THEN Lookup(st, "sys")
             ELSE Raised("SystemExit", "")
      [] func = "oci.fail" ->
             IF Lookup(st, "oci").exc # "" THEN Lookup(st, "oci")
             ELSE Raised("Exception", "boom")
      [] func = "oci.get" ->
             IF Lookup(st, "oci").exc # "" THEN Lookup(st, "oci")
             ELSE Value(OciModel)

Eval(st, e) ==
    CASE e.node = "Constant" -> Value(e.value)
      [] e.node = "Name" -> Lookup(st, e.id)
      [] e.node = "Subscript" ->
             IF Lookup(st, e.value).exc # "" THEN Lookup(st, e.value)
             ELSE IF Lookup(st, e.value).val = ConfigRef
                  THEN Value(PyStr(st.cfg[e.key]))
                  ELSE Raised("Exception", "object is not subscriptable")
      [] e.node = "Call" -> CallFunction(st, e.func, e.arg)

Store(st, target, val) ==
    CASE target.node = "Name" -> [st EXCEPT !.ns = Bind(st.ns, target.id, val)]
      [] target.node = "Subscript" /\ target.value = "config" ->
             [st EXCEPT !.cfg = [@ EXCEPT ![target.key] = val.v]]
      [] target.node = "Subscript" /\ target.value = "__builtins__" ->
             [st EXCEPT !.bi = Bind(st.bi, target.key, val)]

RECURSIVE StoreAll(_, _, _, _)
StoreAll(st, targets, val, i) ==
    IF i > Len(targets) THEN st
    ELSE StoreAll(Store(st, targets[i], val), targets, val, i + 1)

RECURSIVE ImportAll(_, _, _)
ImportAll(st, names, i) ==
    IF i > Len(names) THEN st
    ELSE IF "__import__" \notin DOMAIN st.bi \/ st.bi["__import__"] # Function("__import__")
         THEN Raise(st, "Exception", "__import__ not found")
         ELSE ImportAll([st EXCEPT !.ns = Bind(st.ns, names[i], ModuleObject(names[i]))],
                        names, i + 1)

RECURSIVE ExecStatement(_, _)
RECURSIVE ExecBody(_, _, _)
ExecStatement(st, stmt) ==
    CASE stmt.node = "Import" -> ImportAll(st, stmt.names, 1)
      [] stmt.node = "ImportFrom" ->
             IF stmt.module = NoModuleName
             THEN Raise(st, "Exception", "'__name__' not in globals")
             ELSE [st EXCEPT !.ns = Bind(st.ns, stmt.names[1], Function(stmt.names[1]))]
      [] stmt.node = "Assign" ->
             IF Eval(st, stmt.value).exc # ""
             THEN [st EXCEPT !.exc = Eval(st, stmt.value).exc, !.msg = Eval(st, stmt.value).msg]
             ELSE StoreAll(st, stmt.targets, Eval(st, stmt.value).val, 1)
      [] stmt.node = "AnnAssign" ->
             IF Eval(st, stmt.value).exc # ""
             THEN [st EXCEPT !.exc = Eval(st, stmt.value).exc, !.msg = Eval(st, stmt.value).msg]
             ELSE Store([st EXCEPT !.ns = Bind(st.ns, "__annotations__",
                                                PyDict(stmt.target.id, PyStr("int")))],
                        stmt.target, Eval(st, stmt.value).val)
      [] stmt.node = "If" -> IF stmt.test THEN ExecBody(st, stmt.body, 1) ELSE st
      [] stmt.node = "Expr" ->
             IF Eval(st, stmt.value).exc # ""
             THEN [st EXCEPT !.exc = Eval(st, stmt.value).exc, !.msg = Eval(st, stmt.value).msg]
             ELSE st

ExecBody(st, body, i) ==
    IF i > Len(body) \/ st.exc # "" THEN st
    ELSE ExecBody(ExecStatement(st, body[i]), body, i + 1)

Text(s) == Json("text", "", s, {})

NoResponse == [kind |-> "", text |-> NoPayload]

TextContent(text) == [kind |-> "TextContent", text |-> text]

\* An exception that leaves handle_call_tool.
Fault(exc) == [kind |-> "fault", text |-> Text(exc)]

NoSnippet == <<>>

ToolNames == {TOOL_NAME, "other_tool"}

\* arguments: None, or a dict with the key code_snippet.
NoArguments == [given |-> FALSE, code_snippet |-> NoSnippet]

WithSnippet(s) == [given |-> TRUE, code_snippet |-> s]

Arguments == {NoArguments} \cup {WithSnippet(s) : s \in Snippets}

Pristine(ns) ==
    /\ DOMAIN ns.names = {"oci", "config", "result", "itemgetter"}
    /\ ns.names["result"] = PyNone
    /\ \A b \in DOMAIN ns.builtins : ns.builtins[b] = Function(b)

Init ==
    /\ builtins_is_module \in BOOLEAN
    /\ config = LoadedConfig
    /\ pc = "idle"
    /\ code_snippet = NoSnippet
    /\ tree = Module(<<>>)
    /\ executor = CodeExecutor
    /\ local_ns = NoNamespace
    /\ ip = 0
    /\ payload = NoPayload
    /\ exit = ""
    /\ response = NoResponse
    /\ left_over = FALSE

\* handle_call_tool refuses the call before execute_query is entered.
RefuseCall(name, arguments) ==
    /\ pc = "idle"
    /\ name # TOOL_NAME \/ ~arguments.given
    /\ response' = TextContent(Text(IF name # TOOL_NAME
                                    THEN "Error: Unknown tool: " \o name
                                    ELSE "Error: Missing code_snippet argument"))
    /\ pc' = "responded"
    /\ UNCHANGED <<builtins_is_module, config, code_snippet, tree, executor, local_ns, ip,
                   payload, exit, left_over>>

\* execute_query returns `text` from line `line` before anything was executed.
ReturnEarly(line, text) ==
    /\ pc' = "returned"
    /\ exit' = line
    /\ payload' = text
    /\ local_ns' = NoNamespace

\* handle_call_tool enters execute_query: parse, scan, import check, namespace.
EnterExecuteQuery(name, arguments) ==
    /\ pc = "idle"
    /\ name = TOOL_NAME
    /\ arguments.given
    /\ code_snippet' = arguments.code_snippet
    /\ ip' = 0
    /\ left_over' = (local_ns # NoNamespace /\ ~Pristine(local_ns))
    /\ UNCHANGED <<builtins_is_module, config, response>>
    /\ IF ParseFails(arguments.code_snippet)
       THEN /\ tree' = Module(<<>>)
            /\ executor' = CodeExecutor
            /\ ReturnEarly("L132", ErrorPayload(PyStr("Syntax error: invalid syntax")))
       ELSE /\ tree' = ast_parse(arguments.code_snippet)
            /\ executor' = visit(CodeExecutor, tree')
            /\ IF unauthorized_imports(executor') # {}
               THEN IF JoinRaises(unauthorized_imports(executor'))
                    THEN ReturnEarly("L135", ErrorPayload(JoinTypeError))
                    ELSE ReturnEarly("L89", ErrorPayload(
                             UnauthorizedMessage(unauthorized_imports(executor'))))
               ELSE IF ~builtins_is_module
                    THEN ReturnEarly("L135", ErrorPayload(BuiltinsAttributeError))
                    ELSE /\ local_ns' = BuildNamespace(ConfigRef)
                         /\ pc' = "exec"
                         /\ UNCHANGED <<payload, exit>>

\* exec runs the next top-level statement of the compiled tree.
ExecStep ==
    /\ pc = "exec"
    /\ ip < Len(tree.body)
    /\ LET st == ExecStatement(Frame(local_ns.names, local_ns.builtins, config),
                               tree.body[ip + 1])
       IN /\ ip' = ip + 1
          /\ local_ns' = [names |-> st.ns, builtins |-> st.bi]
          /\ config' = st.cfg
          /\ CASE st.exc = "" -> pc' = "exec" /\ UNCHANGED <<payload, exit>>
               [] st.exc = "Exception" ->
                      /\ pc' = "returned"
                      /\ exit' = "L135"
                      /\ payload' = ErrorPayload(st.msg)
               [] OTHER -> pc' = "raised" /\ exit' = "raise" /\ UNCHANGED payload
    /\ UNCHANGED <<builtins_is_module, code_snippet, tree, executor, response, left_over>>

\* local_ns.get('result')
GetResult(ns) == IF "result" \in DOMAIN ns.names THEN ns.names["result"] ELSE PyNone

\* The checks after exec: the line that returns, and the string it returns.
CheckAndSerialize(has_result, result) ==
    IF ~has_result
    THEN [exit |-> "L120", payload |-> ErrorPayload(MissingResultMessage)]
    ELSE IF result # PyNone
         THEN [exit |-> "L126",
               payload |-> json_dumps(IF hasattr_to_dict(result) THEN to_dict(result) ELSE result)]
         ELSE [exit |-> "L128", payload |-> ErrorPayload(NoneResultMessage)]

\* exec has returned: the result is read, checked and serialized.
Finish ==
    /\ pc = "exec"
    /\ ip = Len(tree.body)
    /\ pc' = "returned"
    /\ exit' = CheckAndSerialize(executor.has_result, GetResult(local_ns)).exit
    /\ payload' = CheckAndSerialize(executor.has_result, GetResult(local_ns)).payload
    /\ UNCHANGED <<builtins_is_module, config, code_snippet, tree, executor, local_ns, ip,
                   response, left_over>>

LeaveFrame ==
    /\ code_snippet' = NoSnippet
    /\ tree' = Module(<<>>)
    /\ executor' = CodeExecutor
    /\ ip' = 0
    /\ payload' = NoPayload
    /\ exit' = ""
    /\ left_over' = FALSE

\* handle_call_tool wraps the string execute_query returned.
Respond ==
    /\ pc = "returned"
    /\ response' = TextContent(payload)
    /\ pc' = "responded"
    /\ LeaveFrame
    /\ UNCHANGED <<builtins_is_module, config, local_ns>>

\* `except Exception` catches no SystemExit, in execute_query or in handle_call_tool.
Propagate ==
    /\ pc = "raised"
    /\ response' = Fault("SystemExit")
    /\ pc' = "responded"
    /\ LeaveFrame
    /\ UNCHANGED <<builtins_is_module, config, local_ns>>

\* The transport takes the response; the server waits for the next call.
Send ==
    /\ pc = "responded"
    /\ pc' = "idle"
    /\ response' = NoResponse
    /\ UNCHANGED <<builtins_is_module, config, code_snippet, tree, executor, local_ns, ip,
                   payload, exit, left_over>>

\* A refused call never reads the snippet: one snippet stands for all of them.
handle_call_tool ==
    \/ \E name \in ToolNames, arguments \in {NoArguments, WithSnippet(Malformed)} :
           RefuseCall(name, arguments)
    \/ \E arguments \in Arguments : EnterExecuteQuery(TOOL_NAME, arguments)

Next == handle_call_tool \/ ExecStep \/ Finish \/ Respond \/ Propagate \/ Send

Spec == Init /\ [][Next]_vars

(***************************************************************************)
(* What the properties below speak of.                                     *)
(***************************************************************************)
Completed == pc \in {"returned", "raised"}

Parses == code_snippet # NoSnippet /\ code_snippet # Malformed

\* The modules the import statements of a body name, at any depth.
RECURSIVE ImportedNames(_)
ImportedNames(body) ==
    UNION { CASE body[i].node = "Import" -> {body[i].names[j] : j \in DOMAIN body[i].names}
              [] body[i].node = "ImportFrom" -> {body[i].module}
              [] body[i].node = "If" -> ImportedNames(body[i].body)
              [] OTHER -> {}
            : i \in DOMAIN body }

\* A statement naming no module: a relative import.
RECURSIVE HasRelativeImport(_)
HasRelativeImport(body) ==
    \E i \in DOMAIN body :
        \/ body[i].node = "ImportFrom" /\ body[i].module = NoModuleName
        \/ body[i].node = "If" /\ HasRelativeImport(body[i].body)

IsResultTarget(target) == target.node = "Name" /\ target.id = "result"

\* The body holds, at some depth, a statement assigning the variable result.
RECURSIVE AssignsResult(_)
AssignsResult(body) ==
    \E i \in DOMAIN body :
        \/ body[i].node = "Assign"
           /\ \E j \in DOMAIN body[i].targets : IsResultTarget(body[i].targets[j])
        \/ body[i].node = "AnnAssign" /\ IsResultTarget(body[i].target)
        \/ body[i].node = "If" /\ AssignsResult(body[i].body)

\* Running the whole body reaches a statement assigning result.
RECURSIVE RunAssignsResult(_)
RunAssignsResult(body) ==
    \E i \in DOMAIN body :
        \/ body[i].node = "Assign"
           /\ \E j \in DOMAIN body[i].targets : IsResultTarget(body[i].targets[j])
        \/ body[i].node = "AnnAssign" /\ IsResultTarget(body[i].target)
        \/ body[i].node = "If" /\ body[i].test /\ RunAssignsResult(body[i].body)

\* exec ran the whole snippet and the checks after it returned.
RanToTheEnd == pc = "returned" /\ exit \in {"L120", "L126", "L128"}

ValidJson(text) == text.shape \in {"object", "number", "string", "null"}

ConfigValues == [region : {"us-ashburn-1", "evil"}]

FreshNames ==
    [n \in {"oci", "config", "result", "itemgetter"} |->
        CASE n = "oci" -> ModuleObject("oci")
          [] n = "config" -> ConfigRef
          [] n = "result" -> PyNone
          [] n = "itemgetter" -> Function("itemgetter")]

FreshBuiltins == [b \in BuiltinNames |-> Function(b)]

\* What the snippet returns when run alone in a namespace of its own, config being cfg.
AloneReturns(snippet, cfg, text) ==
    LET st == ExecBody(Frame(FreshNames, FreshBuiltins, cfg), snippet, 1)
    IN /\ st.exc = ""
       /\ "result" \in DOMAIN st.ns
       /\ st.ns["result"] # PyNone
       /\ text = json_dumps(IF hasattr_to_dict(st.ns["result"])
                            THEN to_dict(st.ns["result"]) ELSE st.ns["result"])

(***************************************************************************)
(* C1: a snippet that parses and imports a module outside the allow-list   *)
(* gets the Unauthorized imports error naming every such module, and none  *)
(* of its statements is executed.                                          *)
(***************************************************************************)
C1_UnauthorizedImportsReported ==
    (Completed /\ Parses
               /\ \E m \in ImportedNames(code_snippet) \ allowed_modules : m # NoModuleName)
        => /\ pc = "returned"
           /\ exit = "L89"
           /\ payload.key = "error"
           /\ payload.names = ImportedNames(code_snippet) \ allowed_modules
           /\ ip = 0

(***************************************************************************)
(* C2: a call that ends in a policy failure (unauthorized imports, or no   *)
(* assignment to result) has executed no statement of the snippet.         *)
(***************************************************************************)
C2_PolicyFailureBeforeExecution ==
    (pc = "returned" /\ exit \in {"L89", "L120"}) => ip = 0

(***************************************************************************)
(* C3: every call of execute_query ends by returning a JSON string; no     *)
(* exception leaves it for the transport.                                  *)
(***************************************************************************)
C3_AlwaysReturnsJson ==
    /\ Completed => (pc = "returned" /\ ValidJson(payload))
    /\ response.kind # "fault"

(***************************************************************************)
(* C4: every call starts executing with the shared config as it was        *)
(* loaded at construction.                                                 *)
(***************************************************************************)
C4_ContextAsConstructed ==
    (pc = "exec" /\ ip = 0) => config = LoadedConfig

(***************************************************************************)
(* C5: every call starts executing in a namespace of its own: exactly the  *)
(* four injected names, result None, the built-ins table as enumerated;    *)
(* and a result it returns is the one the snippet yields when run alone,   *)
(* never one an earlier call left behind.                                  *)
(***************************************************************************)
C5_FreshNamespace ==
    /\ (pc = "exec" /\ ip = 0) =>
           /\ local_ns.names = FreshNames
           /\ local_ns.builtins = FreshBuiltins
    /\ (pc = "returned" /\ exit = "L126") =>
           \E cfg \in ConfigValues : AloneReturns(code_snippet, cfg, payload)

\* A call starts executing after one whose snippet left bindings in its namespace.
C5_Witness ==
    /\ pc = "exec"
    /\ ip = 0
    /\ left_over
    /\ local_ns.names = FreshNames

(***************************************************************************)
(* C6: the returned text is {"result": ...} on success and {"error": ...}  *)
(* on failure, so a success is never read as an error.                     *)
(***************************************************************************)
C6_PayloadShapes ==
    pc = "returned" =>
        /\ payload.shape = "object"
        /\ exit = "L126" => payload.key = "result"
        /\ exit # "L126" => payload.key = "error"

(***************************************************************************)
(* C7: a snippet whose imports are all allowed and that assigns result     *)
(* never ends in a policy failure.                                         *)
(***************************************************************************)
C7_CompliantNeverPolicyFailure ==
    (Completed /\ Parses /\ ImportedNames(code_snippet) \subseteq allowed_modules
               /\ AssignsResult(code_snippet))
        => exit \notin {"L89", "L120"}

(***************************************************************************)
(* C8 as stated: a snippet that passes the static check but assigns        *)
(* result nowhere on the path it runs fails as a missing result, not as a  *)
(* None result.                                                            *)
(***************************************************************************)
C8_UnassignedIsNotNoneResult ==
    (RanToTheEnd /\ executor.has_result /\ ~RunAssignsResult(code_snippet))
        => exit # "L128"

(***************************************************************************)
(* C8 amended: once exec has run the whole snippet, a snippet that passed  *)
(* the static check fails with `Result cannot be None` both when result    *)
(* was bound to None and when no assignment to it ran; the `Code must set  *)
(* a 'result' variable` failure is given exactly when the static flag is   *)
(* false.                                                                  *)
(***************************************************************************)
C8_NoneAndUnassignedAlike ==
    RanToTheEnd =>
        /\ (executor.has_result /\ ~RunAssignsResult(code_snippet)) =>
               (exit = "L128" /\ payload = ErrorPayload(NoneResultMessage))
        /\ (executor.has_result /\ GetResult(local_ns) = PyNone) =>
               (exit = "L128" /\ payload = ErrorPayload(NoneResultMessage))
        /\ (exit = "L120") <=> ~executor.has_result

\* The only assignment to result sits in a branch that did not run.
C8_Witness ==
    /\ RanToTheEnd
    /\ executor.has_result
    /\ ~RunAssignsResult(code_snippet)
    /\ exit = "L128"

(***************************************************************************)
(* C9: a snippet with a relative import (no module name) ends in the       *)
(* Unauthorized imports failure, before any statement is executed.         *)
(***************************************************************************)
C9_RelativeImportIsPolicyFailure ==
    (Completed /\ Parses /\ HasRelativeImport(code_snippet))
        => (pc = "returned" /\ exit = "L89" /\ ip = 0)

(***************************************************************************)
(* C10: no module outside the allow-list is ever bound in the namespace    *)
(* of an executing snippet.                                                *)
(***************************************************************************)
C10_OnlyAllowedModulesHeld ==
    \A n \in DOMAIN local_ns.names :
        local_ns.names[n].t = "module" => local_ns.names[n].v \in allowed_modules
====
